---- MODULE Spec2Model ----
(***************************************************************************)
(* The headless dropdown of the article: the useDropdown hook (open/close, *)
(* committed item, highlighted index, keyboard handler), the Dropdown      *)
(* component that feeds it an item list, and the useService hook that      *)
(* fetches the list.  Every action is one event handler followed by the    *)
(* re-render React performs for it, so the values a handler closes over    *)
(* are the unprimed variables of the step.                                 *)
(***************************************************************************)
EXTENDS Integers, Sequences, FiniteSets, TLC

VARIABLES
    items,          \* the array handed to useDropdown at the last render
    isOpen,         \* useState(false)
    selectedItem,   \* useState<Item | null>(null)
    selectedIndex,  \* useState(0)
    loading,        \* useService: useState(false)
    data,           \* useService: useState<T | null>(null)
    error,          \* useService: useState<Error | undefined>(undefined)
    issued,         \* number of fetchData() invocations started so far
    pending,        \* invocations whose promise has not settled yet
    settled,        \* how the invocation that completed last ended
    mounted,        \* the owning component is still in the tree
    last,           \* the event delivered last (and whether it was default-prevented)
    hist,           \* the user events delivered since construction, while they
                    \* are few and nothing else has happened
    panel,          \* which auto-closing panel is under study, if any
    timers,         \* ids of the setTimeout calls neither fired nor cleared
    timerSeq,       \* number of setTimeout calls made so far
    effectDue,      \* the panel rendered and its effect has not run yet
    cleanup,        \* timer id the cleanup returned by the last effect clears
    call,           \* the wrapped function invoked last, and its arguments
    output,         \* what that invocation returned
    calls,          \* the functions it called in turn, in order
    closure         \* what the handlers of the last render captured; read
                    \* when events are delivered with no render in between

selVars == <<items, isOpen, selectedItem, selectedIndex>>
svcVars == <<loading, data, error, issued, pending, settled>>
panelVars == <<panel, timers, timerSeq, effectDue, cleanup>>
hofVars == <<call, output, calls>>
vars == <<items, isOpen, selectedItem, selectedIndex,
          loading, data, error, issued, pending, settled, mounted, last, hist,
          panel, timers, timerSeq, effectDue, cleanup,
          call, output, calls, closure>>

----------------------------------------------------------------------------
(* Bounds *)

MaxIndex == 3       \* |selectedIndex| explored
MaxFetches == 2     \* fetchData() invocations explored
MaxHist == 3        \* user events remembered in hist
MaxTimers == 3      \* setTimeout calls a panel may make by being reopened
MaxReport == 3      \* line items in a report
MaxWraps == 2       \* higher-order functions applied on top of one another

----------------------------------------------------------------------------
(* Values *)

\* const items = [{ text: "Apple" }, { text: "Orange" }, { text: "Banana" }]
Catalogue == <<"Apple", "Orange", "Banana">>

Items == {Catalogue[i] : i \in 1..Len(Catalogue)}

Null == "null"              \* JavaScript null (no item committed)
Undefined == "undefined"    \* JavaScript undefined
NoData == <<Null>>          \* data === null
SomeError == "Error"        \* an Error object caught from the fetch

RECURSIVE SubLists(_)
SubLists(s) ==
    IF s = <<>> THEN {<<>>}
    ELSE LET rest == SubLists(Tail(s))
         IN  rest \cup {<<Head(s)>> \o r : r \in rest}

\* The arrays a caller or a server hands over: the catalogue with any of
\* its entries left out
ItemLists == SubLists(Catalogue)

\* The arrays the fetch function resolves with: the catalogue with its
\* first entries gone (all of it, a shorter list, the empty list)
Responses == {SubSeq(Catalogue, k, Len(Catalogue)) : k \in 1..Len(Catalogue) + 1}

Elems(list) == {list[i] : i \in 1..Len(list)}

\* items[index] of a JavaScript array: undefined outside 0 .. length-1
ItemAt(list, index) ==
    IF index >= 0 /\ index < Len(list) THEN list[index + 1] ELSE Undefined

Keys == {"Enter", " ", "ArrowDown", "ArrowUp", "Escape", "a"}

NoEvent == [op |-> "none", key |-> "", item |-> "", inv |-> 0,
            prevented |-> FALSE, blurred |-> FALSE]

Overflow == <<"...">>

\* an effect that returned no cleanup (timer ids start at 1)
NoTimer == 0

\* nothing invoked yet
NoCall == [fn |-> "none", wraps |-> <<>>, args |-> <<>>]

Remember(tag) == IF Len(hist) < MaxHist THEN Append(hist, tag) ELSE Overflow

----------------------------------------------------------------------------
(* useDropdown *)

\* the wrap-around test left out
getNextIndexOf_NoWrap(total, current) == current + 1

getNextIndexOf(total, current) ==
    IF current = total - 1 THEN 0 ELSE current + 1

getPreviousIndexOf(total, current) ==
    IF current = 0 THEN total - 1 ELSE current - 1

\* useState(-1), as the Dropdown of the article's final text has it
InitialIndex_Sentinel == -1

InitialIndex == 0

\* setIsOpen(true) instead of the inverting updater
toggleDropdown_AlwaysOpen ==
    /\ isOpen' = TRUE
    /\ UNCHANGED <<selectedItem, selectedIndex>>

\* const toggleDropdown = () => setIsOpen((isOpen) => !isOpen)
toggleDropdown ==
    /\ isOpen' = ~isOpen
    /\ UNCHANGED <<selectedItem, selectedIndex>>

\* the commit without the setIsOpen call
handleEnter_StaysOpen ==
    /\ selectedItem' = ItemAt(items, selectedIndex)
    /\ UNCHANGED <<isOpen, selectedIndex>>

\* case "Enter": case " "
handleEnter ==
    /\ selectedItem' = ItemAt(items, selectedIndex)
    /\ isOpen' = ~isOpen
    /\ UNCHANGED selectedIndex

\* an arrow key that commits the item it leaves
handleArrowDown_Committing ==
    /\ selectedIndex' = getNextIndexOf(Len(items), selectedIndex)
    /\ selectedItem' = ItemAt(items, selectedIndex)
    /\ UNCHANGED isOpen

\* case "ArrowDown"
handleArrowDown ==
    /\ selectedIndex' = getNextIndexOf(Len(items), selectedIndex)
    /\ UNCHANGED <<isOpen, selectedItem>>

\* case "ArrowUp"
handleArrowUp ==
    /\ selectedIndex' = getPreviousIndexOf(Len(items), selectedIndex)
    /\ UNCHANGED <<isOpen, selectedItem>>

\* the keys whose case calls e.preventDefault()
preventsDefault(key) == key \in {"Enter", " ", "ArrowDown", "ArrowUp"}

handleKeyDown(key) ==
    CASE key \in {"Enter", " "} -> handleEnter
      [] key = "ArrowDown" -> handleArrowDown
      [] key = "ArrowUp" -> handleArrowUp
      [] OTHER -> UNCHANGED <<isOpen, selectedItem, selectedIndex>>

\* onItemClick={setSelectedItem}
setSelectedItem(item) ==
    /\ selectedItem' = item
    /\ UNCHANGED <<isOpen, selectedIndex>>

\* helper function can return some aria attribute for UI
getAriaAttributes ==
    [role |-> "combobox",
     expanded |-> isOpen,
     activedescendant |->
         IF selectedItem \notin {Null, Undefined} THEN selectedItem ELSE Undefined]

----------------------------------------------------------------------------
(* Dropdown({ items }): the events of the component over useDropdown(items) *)

Init ==
    /\ items \in ItemLists
    /\ isOpen = FALSE
    /\ selectedItem = Null
    /\ selectedIndex = InitialIndex
    /\ loading = FALSE
    /\ data = NoData
    /\ error = Undefined
    /\ issued = 0
    /\ pending = {}
    /\ settled = "none"
    /\ mounted = TRUE
    /\ last = NoEvent
    /\ hist = <<>>
    /\ panel = "none"
    /\ timers = {}
    /\ timerSeq = 0
    /\ effectDue = FALSE
    /\ cleanup = NoTimer
    /\ call = NoCall
    /\ output = ""
    /\ calls = <<>>
    /\ closure = [selectedIndex |-> selectedIndex, items |-> items]

\* <Trigger onClick={toggleDropdown} />
TriggerClick ==
    /\ mounted
    /\ toggleDropdown
    /\ UNCHANGED closure
    /\ last' = [NoEvent EXCEPT !.op = "toggle"]
    /\ hist' = Remember("toggle")
    /\ UNCHANGED <<items, mounted>>
    /\ UNCHANGED svcVars
    /\ UNCHANGED panelVars
    /\ UNCHANGED hofVars

\* <div className="dropdown" onKeyDown={handleKeyDown}>
KeyDown(key) ==
    /\ mounted
    /\ handleKeyDown(key)
    /\ selectedIndex' \in -MaxIndex..MaxIndex
    /\ UNCHANGED closure
    /\ last' = [NoEvent EXCEPT !.op = "key", !.key = key,
                               !.prevented = preventsDefault(key)]
    /\ hist' = Remember(key)
    /\ UNCHANGED <<items, mounted>>
    /\ UNCHANGED svcVars
    /\ UNCHANGED panelVars
    /\ UNCHANGED hofVars

\* {isOpen && <DropdownMenu items={items} onItemClick={setSelectedItem} />}
ItemClick(item) ==
    /\ mounted
    /\ isOpen
    /\ item \in Elems(items)
    /\ setSelectedItem(item)
    /\ UNCHANGED closure
    /\ last' = [NoEvent EXCEPT !.op = "click", !.item = item]
    /\ hist' = Remember("click")
    /\ UNCHANGED <<items, mounted>>
    /\ UNCHANGED svcVars
    /\ UNCHANGED panelVars
    /\ UNCHANGED hofVars

\* the parent renders <Dropdown items={newItems} /> again
SetItems(newItems) ==
    /\ mounted
    /\ newItems # items
    /\ items' = newItems
    /\ UNCHANGED closure
    /\ last' = [NoEvent EXCEPT !.op = "setItems"]
    /\ hist' = Overflow
    /\ UNCHANGED <<isOpen, selectedItem, selectedIndex, mounted>>
    /\ UNCHANGED svcVars
    /\ UNCHANGED panelVars
    /\ UNCHANGED hofVars

Next ==
    \/ TriggerClick
    \/ \E key \in Keys : KeyDown(key)
    \/ \E item \in Items : ItemClick(item)
    \/ \E newItems \in ItemLists : SetItems(newItems)

Spec == Init /\ [][Next]_vars

\* the owner of the hook calls the setSelectedItem it returns, with any item
SelectItem(item) ==
    /\ mounted
    /\ setSelectedItem(item)
    /\ UNCHANGED closure
    /\ last' = [NoEvent EXCEPT !.op = "select", !.item = item]
    /\ hist' = Overflow
    /\ UNCHANGED <<items, mounted>>
    /\ UNCHANGED svcVars
    /\ UNCHANGED panelVars
    /\ UNCHANGED hofVars

NextHook ==
    \/ Next
    \/ \E item \in Items : SelectItem(item)

SpecHook == Init /\ [][NextHook]_vars

----------------------------------------------------------------------------
(* useService(fetch) and the Dropdown that renders useDropdown(data || []) *)

\* data || []
ItemsOf(d) == IF d = NoData THEN <<>> ELSE d

\* renderContent: what the open dropdown shows
renderContent ==
    IF loading THEN "Loading"
    ELSE IF error # Undefined THEN "Error"
    ELSE IF data # NoData THEN "DropdownMenu"
    ELSE "nothing"

InitService ==
    /\ items = ItemsOf(NoData)
    /\ isOpen = FALSE
    /\ selectedItem = Null
    /\ selectedIndex = InitialIndex
    /\ loading = FALSE
    /\ data = NoData
    /\ error = Undefined
    /\ issued = 0
    /\ pending = {}
    /\ settled = "none"
    /\ mounted = TRUE
    /\ last = NoEvent
    /\ hist = <<>>
    /\ panel = "none"
    /\ timers = {}
    /\ timerSeq = 0
    /\ effectDue = FALSE
    /\ cleanup = NoTimer
    /\ call = NoCall
    /\ output = ""
    /\ calls = <<>>
    /\ closure = [selectedIndex |-> selectedIndex, items |-> items]

\* useEffect(() => { ... fetchData(); }, [fetch]): runs after the first
\* render and after every render that brings another fetch function.
\* fetchData up to its await: setLoading(true), then fetch() is called.
fetchData ==
    /\ loading' = TRUE
    /\ issued' = issued + 1
    /\ pending' = pending \cup {issued + 1}
    /\ UNCHANGED <<data, error, settled>>

RunEffect ==
    /\ mounted
    /\ issued < MaxFetches
    /\ fetchData
    /\ UNCHANGED closure
    /\ last' = [NoEvent EXCEPT !.op = "fetch", !.inv = issued + 1]
    /\ hist' = Overflow
    /\ UNCHANGED <<items, isOpen, selectedItem, selectedIndex, mounted>>
    /\ UNCHANGED panelVars
    /\ UNCHANGED hofVars

\* fetchData after its await, try branch: setData(data); finally setLoading(false)
fetchResolved(inv, result) ==
    /\ data' = result
    /\ loading' = FALSE
    /\ pending' = pending \ {inv}
    /\ settled' = "success"
    /\ UNCHANGED <<error, issued>>

\* a catch branch that also drops the list: setData(null); setError(e)
fetchRejected_DropsData(inv) ==
    /\ error' = SomeError
    /\ data' = NoData
    /\ loading' = FALSE
    /\ pending' = pending \ {inv}
    /\ settled' = "failure"
    /\ UNCHANGED issued

\* fetchData after its await, catch branch: setError(e); finally setLoading(false)
fetchRejected(inv) ==
    /\ error' = SomeError
    /\ loading' = FALSE
    /\ pending' = pending \ {inv}
    /\ settled' = "failure"
    /\ UNCHANGED <<data, issued>>

\* The continuation of fetchData runs when the promise settles, whether or
\* not the owner is still mounted and whether or not a later invocation has
\* been started: nothing in it tests either.  The variables data, error and
\* loading record what the setters were called with.

\* a mounted Dropdown renders again with useDropdown(data || [])
Rerender == items' = IF mounted THEN ItemsOf(data') ELSE items

Resolve(inv, result) ==
    /\ inv \in pending
    /\ fetchResolved(inv, result)
    /\ Rerender
    /\ UNCHANGED closure
    /\ last' = [NoEvent EXCEPT !.op = "resolve", !.inv = inv]
    /\ hist' = Overflow
    /\ UNCHANGED <<isOpen, selectedItem, selectedIndex, mounted>>
    /\ UNCHANGED panelVars
    /\ UNCHANGED hofVars

Reject(inv) ==
    /\ inv \in pending
    /\ fetchRejected(inv)
    /\ Rerender
    /\ UNCHANGED closure
    /\ last' = [NoEvent EXCEPT !.op = "reject", !.inv = inv]
    /\ hist' = Overflow
    /\ UNCHANGED <<isOpen, selectedItem, selectedIndex, mounted>>
    /\ UNCHANGED panelVars
    /\ UNCHANGED hofVars

\* the owner of the hooks is removed from the tree; useService registers no
\* cleanup, so the invocations in flight stay in flight
Unmount ==
    /\ mounted
    /\ issued >= 1
    /\ mounted' = FALSE
    /\ UNCHANGED closure
    /\ last' = [NoEvent EXCEPT !.op = "unmount"]
    /\ hist' = Overflow
    /\ UNCHANGED selVars
    /\ UNCHANGED svcVars
    /\ UNCHANGED panelVars
    /\ UNCHANGED hofVars

\* React runs the effects of a commit before it dispatches a later event
ServiceTriggerClick == issued >= 1 /\ TriggerClick

ServiceKeyDown(key) == issued >= 1 /\ KeyDown(key)

\* the menu is on screen only when renderContent returns it
ServiceItemClick(item) ==
    /\ issued >= 1
    /\ renderContent = "DropdownMenu"
    /\ ItemClick(item)

NextService ==
    \/ RunEffect
    \/ \E inv \in 1..MaxFetches, result \in Responses : Resolve(inv, result)
    \/ \E inv \in 1..MaxFetches : Reject(inv)
    \/ Unmount
    \/ ServiceTriggerClick
    \/ \E key \in Keys : ServiceKeyDown(key)
    \/ \E item \in Items : ServiceItemClick(item)

SpecService == InitService /\ [][NextService]_vars

----------------------------------------------------------------------------
(* Dropdown({ items }) before the hook was extracted: the same state cells, *)
(* with handlers that read isOpen from the render they were created in     *)

SelectionState ==
    [isOpen |-> isOpen, selectedIndex |-> selectedIndex,
     selectedItem |-> selectedItem, items |-> items]

\* closing by the inverting updater the hook uses
close_Inverting(s) == [s EXCEPT !.isOpen = ~s.isOpen]

\* setIsOpen(false)
close(s) == [s EXCEPT !.isOpen = FALSE]

\* case "Enter": case " ": if (isOpen) { commit; close } else { open }
inlineHandleEnter ==
    IF isOpen
    THEN /\ selectedItem' = ItemAt(items, selectedIndex)
         /\ isOpen' = close(SelectionState).isOpen
         /\ UNCHANGED selectedIndex
    ELSE /\ isOpen' = TRUE
         /\ UNCHANGED <<selectedItem, selectedIndex>>

inlineHandleKeyDown(key) ==
    CASE key \in {"Enter", " "} -> inlineHandleEnter
      [] key = "ArrowDown" -> handleArrowDown
      [] key = "ArrowUp" -> handleArrowUp
      [] OTHER -> UNCHANGED <<isOpen, selectedItem, selectedIndex>>

\* <Trigger onClick={() => setIsOpen(!isOpen)} />
InlineTriggerClick ==
    /\ mounted
    /\ isOpen' = ~isOpen
    /\ UNCHANGED closure
    /\ last' = [NoEvent EXCEPT !.op = "toggle"]
    /\ hist' = Remember("toggle")
    /\ UNCHANGED <<items, selectedItem, selectedIndex, mounted>>
    /\ UNCHANGED svcVars
    /\ UNCHANGED panelVars
    /\ UNCHANGED hofVars

InlineKeyDown(key) ==
    /\ mounted
    /\ inlineHandleKeyDown(key)
    /\ selectedIndex' \in -MaxIndex..MaxIndex
    /\ UNCHANGED closure
    /\ last' = [NoEvent EXCEPT !.op = "key", !.key = key,
                               !.prevented = preventsDefault(key)]
    /\ hist' = Remember(key)
    /\ UNCHANGED <<items, mounted>>
    /\ UNCHANGED svcVars
    /\ UNCHANGED panelVars
    /\ UNCHANGED hofVars

NextInline ==
    \/ InlineTriggerClick
    \/ \E key \in Keys : InlineKeyDown(key)
    \/ \E item \in Items : ItemClick(item)
    \/ \E newItems \in ItemLists : SetItems(newItems)

SpecInline == Init /\ [][NextInline]_vars

----------------------------------------------------------------------------
(* useAutoClose(duration) in ExpandablePanel with useKeyboard, and          *)
(* withAutoClose(withKeyboardToggle(ExpandablePanel), duration)             *)

PanelKinds == {"useAutoClose", "withAutoClose"}

\* the panel before the logic was extracted from it
AllPanelKinds == PanelKinds \cup {"AutoCloseExpandablePanel"}

\* withKeyboardToggle(ExpandablePanel): no isOpen and no toggle in the props
KeyboardOnly == "withKeyboardToggle"

\* AutoCloseExpandablePanel's effect: setTimeout in every render
shouldArm_Always(open) == TRUE

\* if (isOpen) { const timerId = setTimeout(...) }
shouldArm(open) == open

\* an effect that never calls setTimeout
arms_Never == FALSE

\* AutoCloseExpandablePanel calls setTimeout in every effect
arms == IF panel = "AutoCloseExpandablePanel" THEN TRUE ELSE shouldArm(isOpen)

\* a cleanup that forgets its timer
clearTimeout_Forgotten(ts, id) == ts

\* return () => clearTimeout(timerId)
clearTimeout(ts, id) == ts \ {id}

\* useState<boolean>(true), rendered once, effect of the mount not yet run
InitPanel ==
    /\ panel \in PanelKinds
    /\ isOpen = TRUE
    /\ items = <<>>
    /\ selectedItem = Null
    /\ selectedIndex = InitialIndex
    /\ loading = FALSE
    /\ data = NoData
    /\ error = Undefined
    /\ issued = 0
    /\ pending = {}
    /\ settled = "none"
    /\ mounted = TRUE
    /\ last = NoEvent
    /\ hist = <<>>
    /\ timers = {}
    /\ timerSeq = 0
    /\ effectDue = TRUE
    /\ cleanup = NoTimer
    /\ call = NoCall
    /\ output = ""
    /\ calls = <<>>
    /\ closure = [selectedIndex |-> selectedIndex, items |-> items]

\* an effect that runs after the first render only: useEffect(..., [])
toggle_EffectOnce ==
    /\ (isOpen /\ panel \in PanelKinds) \/ timerSeq < MaxTimers
    /\ isOpen' = ~isOpen
    /\ UNCHANGED <<panel, timers, timerSeq, effectDue, cleanup>>

\* const toggle = () => setIsOpen((show) => !show); the render that follows
\* has a changed isOpen in the effect's dependencies
toggle ==
    /\ (isOpen /\ panel \in PanelKinds) \/ timerSeq < MaxTimers
    /\ isOpen' = ~isOpen
    /\ effectDue' = TRUE
    /\ UNCHANGED <<panel, timers, timerSeq, cleanup>>

\* the toggle prop is never called
toggleProp_Ignored == UNCHANGED <<isOpen, panelVars>>

\* (props.toggle ?? noop)()
toggleProp ==
    IF panel = KeyboardOnly THEN UNCHANGED <<isOpen, panelVars>> ELSE toggle

\* <header onClick={toggle}>
PanelHeaderClick ==
    /\ mounted
    /\ ~effectDue
    /\ panel # KeyboardOnly
    /\ toggle
    /\ UNCHANGED closure
    /\ last' = [NoEvent EXCEPT !.op = "toggle"]
    /\ hist' = Remember("toggle")
    /\ UNCHANGED <<items, selectedItem, selectedIndex, mounted>>
    /\ UNCHANGED svcVars
    /\ UNCHANGED hofVars

\* useKeyboard.handleKeyDown and withKeyboardToggle.handleKeyDown: Enter and
\* Space toggle; Escape blurs the div withKeyboardToggle wraps around
PanelKeyDown(key) ==
    /\ mounted
    /\ ~effectDue
    /\ panel \in PanelKinds \cup {KeyboardOnly}
    /\ IF key \in {"Enter", " "}
       THEN toggleProp
       ELSE UNCHANGED <<isOpen, panelVars>>
    /\ UNCHANGED closure
    /\ last' = [NoEvent EXCEPT
                   !.op = "key", !.key = key,
                   !.prevented = (key \in {"Enter", " "}),
                   !.blurred = (key = "Escape" /\ panel # "useAutoClose")]
    /\ hist' = Remember(key)
    /\ UNCHANGED <<items, selectedItem, selectedIndex, mounted>>
    /\ UNCHANGED svcVars
    /\ UNCHANGED hofVars

\* useEffect(..., [duration, isOpen]): the cleanup of the effect before
\* clears its timer, then the effect arms a new one if isOpen
PanelEffect ==
    /\ mounted
    /\ effectDue
    /\ timers' = clearTimeout(timers, cleanup)
                    \cup (IF arms THEN {timerSeq + 1} ELSE {})
    /\ timerSeq' = IF arms THEN timerSeq + 1 ELSE timerSeq
    /\ cleanup' = IF arms THEN timerSeq + 1 ELSE NoTimer
    /\ effectDue' = FALSE
    /\ UNCHANGED closure
    /\ last' = [NoEvent EXCEPT !.op = "effect"]
    /\ UNCHANGED <<selVars, panel, mounted, hist>>
    /\ UNCHANGED svcVars
    /\ UNCHANGED hofVars

\* the timer's callback: () => setIsOpen(false); a changed isOpen renders
PanelTimerExpire(t) ==
    /\ t \in timers
    /\ isOpen' = FALSE
    /\ timers' = timers \ {t}
    /\ effectDue' = (effectDue \/ isOpen)
    /\ UNCHANGED closure
    /\ last' = [NoEvent EXCEPT !.op = "expire", !.inv = t]
    /\ UNCHANGED <<items, selectedItem, selectedIndex, panel, timerSeq,
                   cleanup, mounted, hist>>
    /\ UNCHANGED svcVars
    /\ UNCHANGED hofVars

PanelExpire == \E t \in timers : PanelTimerExpire(t)

\* unmounting runs the cleanup: return () => clearTimeout(timerId)
PanelUnmount ==
    /\ mounted
    /\ mounted' = FALSE
    /\ timers' = clearTimeout(timers, cleanup)
    /\ cleanup' = NoTimer
    /\ effectDue' = FALSE
    /\ UNCHANGED closure
    /\ last' = [NoEvent EXCEPT !.op = "unmount"]
    /\ UNCHANGED <<selVars, panel, timerSeq, hist>>
    /\ UNCHANGED svcVars
    /\ UNCHANGED hofVars

NextPanel ==
    \/ PanelHeaderClick
    \/ \E key \in Keys : PanelKeyDown(key)
    \/ PanelEffect
    \/ PanelExpire
    \/ PanelUnmount

\* every panel of the text: the three that close themselves and the one
\* that has the keyboard alone
InitAllPanels ==
    /\ panel \in AllPanelKinds \cup {KeyboardOnly}
    /\ isOpen = (panel # KeyboardOnly)
    /\ items = <<>>
    /\ selectedItem = Null
    /\ selectedIndex = InitialIndex
    /\ loading = FALSE
    /\ data = NoData
    /\ error = Undefined
    /\ issued = 0
    /\ pending = {}
    /\ settled = "none"
    /\ mounted = TRUE
    /\ last = NoEvent
    /\ hist = <<>>
    /\ timers = {}
    /\ timerSeq = 0
    /\ effectDue = (panel # KeyboardOnly)
    /\ cleanup = NoTimer
    /\ call = NoCall
    /\ output = ""
    /\ calls = <<>>
    /\ closure = [selectedIndex |-> selectedIndex, items |-> items]

SpecPanels == InitAllPanels /\ [][NextPanel]_vars

\* React runs the effect of every committed render, and the host fires every
\* timer that stays armed
SpecAutoClose ==
    /\ InitPanel
    /\ [][NextPanel]_vars
    /\ WF_vars(PanelEffect)
    /\ WF_vars(PanelExpire)

----------------------------------------------------------------------------
(* hof.js: withHeader, withFooter and the content functions; and the       *)
(* higher-order component withAuthorization                                 *)

\* const items = [{ name: 'Apple', price: 1 }, { name: 'Banana', price: 0.75 }]
\* with the price held in hundredths
LineItems ==
    {[name |-> "Apple", price |-> 100], [name |-> "Banana", price |-> 75]}

\* ${item.price}: the shortest decimal of the number
NumberToString(hundredths) ==
    LET whole == hundredths \div 100
        frac == hundredths % 100
    IN  IF frac = 0 THEN ToString(whole)
        ELSE IF frac % 10 = 0
             THEN ToString(whole) \o "." \o ToString(frac \div 10)
             ELSE ToString(whole) \o "." \o ToString(frac \div 10)
                                  \o ToString(frac % 10)

printLineItem(item) ==
    "Name: " \o item.name \o " - Price: $" \o NumberToString(item.price)

RECURSIVE join(_, _)
join(strs, sep) ==
    IF Len(strs) = 0 THEN ""
    ELSE IF Len(strs) = 1 THEN strs[1]
    ELSE strs[1] \o sep \o join(Tail(strs), sep)

\* items.map(printLineItem).join('\n')
printAllItems(list) ==
    join([i \in 1..Len(list) |-> printLineItem(list[i])], "\n")

ContentFuncs == {"printLineItem", "printAllItems"}

\* a content function reads its first argument and ignores the others
contentFunc(name, args) ==
    IF name = "printAllItems" THEN printAllItems(args[1])
    ELSE printLineItem(args[1])

\* calling the content function itself
callContent(name, args) ==
    [value |-> contentFunc(name, args),
     calls |-> <<[fn |-> name, args |-> args,
                  returned |-> contentFunc(name, args)]>>]

\* the header put after the content
withHeader_Trailing(inner) ==
    [inner EXCEPT !.value = inner.value \o "=== Header ===\n"]

\* (...args) => header + contentFunc(...args)
withHeader(inner) ==
    [inner EXCEPT !.value = "=== Header ===\n" \o inner.value]

\* (...args) => contentFunc(...args) + footer
withFooter(inner) ==
    [inner EXCEPT !.value = inner.value \o "\n=== Footer ==="]

Wrappers == {"withHeader", "withFooter"}

\* wraps[1] was applied first: <<"withHeader", "withFooter">> stands for
\* withFooter(withHeader(base))
RECURSIVE invoke(_, _, _)
invoke(base, wraps, args) ==
    IF wraps = <<>> THEN callContent(base, args)
    ELSE LET inner == invoke(base, SubSeq(wraps, 1, Len(wraps) - 1), args)
         IN  IF wraps[Len(wraps)] = "withHeader"
             THEN withHeader(inner)
             ELSE withFooter(inner)

RECURSIVE SeqsUpTo(_, _)
SeqsUpTo(S, n) ==
    IF n = 0 THEN {<<>>}
    ELSE LET shorter == SeqsUpTo(S, n - 1)
         IN  shorter \cup {Append(q, x) : q \in shorter, x \in S}

\* the argument lists a content function accepts, with and without an
\* argument it does not read
ArgLists(base) ==
    LET first == IF base = "printAllItems"
                 THEN SeqsUpTo(LineItems, MaxReport)
                 ELSE LineItems
    IN  {<<a>> : a \in first} \cup {<<a, "verbose">> : a \in first}

\* JavaScript's conversion of a condition
truthy(v) == v \notin {"false", Undefined, Null}

AuthOutcomes == {"true", "false", Undefined}

\* the condition inverted
withAuthorization_Inverted(Component, outcome) ==
    LET check == [fn |-> "checkAuthorization", args |-> <<>>,
                  returned |-> outcome]
        shown == IF truthy(outcome) THEN "Login" ELSE Component
    IN  [value |-> shown,
         calls |-> <<check, [fn |-> shown, args |-> <<>>, returned |-> shown]>>]

\* const isAuthorized = checkAuthorization();
\* return isAuthorized ? <Component {...props} /> : <Login />;
withAuthorization(Component, outcome) ==
    LET check == [fn |-> "checkAuthorization", args |-> <<>>,
                  returned |-> outcome]
        shown == IF truthy(outcome) THEN Component ELSE "Login"
    IN  [value |-> shown,
         calls |-> <<check, [fn |-> shown, args |-> <<>>, returned |-> shown]>>]

InitHOF ==
    /\ items = <<>>
    /\ isOpen = FALSE
    /\ selectedItem = Null
    /\ selectedIndex = InitialIndex
    /\ loading = FALSE
    /\ data = NoData
    /\ error = Undefined
    /\ issued = 0
    /\ pending = {}
    /\ settled = "none"
    /\ mounted = TRUE
    /\ last = NoEvent
    /\ hist = <<>>
    /\ panel = "none"
    /\ timers = {}
    /\ timerSeq = 0
    /\ effectDue = FALSE
    /\ cleanup = NoTimer
    /\ call = NoCall
    /\ output = ""
    /\ calls = <<>>
    /\ closure = [selectedIndex |-> selectedIndex, items |-> items]

\* console.log(report(items)) for some composition of the wrappers
Report(base, wraps, args) ==
    /\ call' = [fn |-> base, wraps |-> wraps, args |-> args]
    /\ output' = invoke(base, wraps, args).value
    /\ calls' = invoke(base, wraps, args).calls
    /\ UNCHANGED closure
    /\ last' = [NoEvent EXCEPT !.op = "report"]
    /\ UNCHANGED <<selVars, mounted, hist>>
    /\ UNCHANGED svcVars
    /\ UNCHANGED panelVars

\* a render of Profile = withAuthorization(ProfileComponent)
RenderProfile(outcome) ==
    /\ call' = [fn |-> "ProfileComponent", wraps |-> <<"withAuthorization">>,
                args |-> <<>>]
    /\ output' = withAuthorization("ProfileComponent", outcome).value
    /\ calls' = withAuthorization("ProfileComponent", outcome).calls
    /\ UNCHANGED closure
    /\ last' = [NoEvent EXCEPT !.op = "render"]
    /\ UNCHANGED <<selVars, mounted, hist>>
    /\ UNCHANGED svcVars
    /\ UNCHANGED panelVars

NextHOF ==
    \/ \E base \in ContentFuncs, wraps \in SeqsUpTo(Wrappers, MaxWraps) :
          \E args \in ArgLists(base) : Report(base, wraps, args)
    \/ \E outcome \in AuthOutcomes : RenderProfile(outcome)

SpecHOF == InitHOF /\ [][NextHOF]_vars

----------------------------------------------------------------------------
(* useDropdown when its owner delivers several events to the handlers of  *)
(* one render, as in act(() => { ... }) around calls of the hook's methods *)

\* setSelectedItem(items[selectedIndex]) reads the render's items and
\* selectedIndex; setIsOpen((isOpen) => !isOpen) reads the state
batchedHandleEnter ==
    /\ selectedItem' = ItemAt(closure.items, closure.selectedIndex)
    /\ isOpen' = ~isOpen
    /\ UNCHANGED selectedIndex

\* getNextIndex is bound to the render's items.length; the updater receives
\* the state
batchedHandleKeyDown(key) ==
    CASE key \in {"Enter", " "} -> batchedHandleEnter
      [] key = "ArrowDown" ->
            /\ selectedIndex' =
                   getNextIndexOf(Len(closure.items), selectedIndex)
            /\ UNCHANGED <<isOpen, selectedItem>>
      [] key = "ArrowUp" ->
            /\ selectedIndex' =
                   getPreviousIndexOf(Len(closure.items), selectedIndex)
            /\ UNCHANGED <<isOpen, selectedItem>>
      [] OTHER -> UNCHANGED <<isOpen, selectedItem, selectedIndex>>

BatchedKeyDown(key) ==
    /\ mounted
    /\ batchedHandleKeyDown(key)
    /\ selectedIndex' \in -MaxIndex..MaxIndex
    /\ last' = [NoEvent EXCEPT !.op = "key", !.key = key,
                               !.prevented = preventsDefault(key)]
    /\ hist' = Remember(key)
    /\ UNCHANGED <<items, mounted, closure>>
    /\ UNCHANGED svcVars
    /\ UNCHANGED panelVars
    /\ UNCHANGED hofVars

BatchedToggle ==
    /\ mounted
    /\ toggleDropdown
    /\ last' = [NoEvent EXCEPT !.op = "toggle"]
    /\ hist' = Remember("toggle")
    /\ UNCHANGED <<items, mounted, closure>>
    /\ UNCHANGED svcVars
    /\ UNCHANGED panelVars
    /\ UNCHANGED hofVars

\* React renders the owner: new handlers capture the state as it is now
Render ==
    /\ mounted
    /\ closure # [selectedIndex |-> selectedIndex, items |-> items]
    /\ closure' = [selectedIndex |-> selectedIndex, items |-> items]
    /\ last' = [NoEvent EXCEPT !.op = "render"]
    /\ UNCHANGED <<selVars, mounted, hist>>
    /\ UNCHANGED svcVars
    /\ UNCHANGED panelVars
    /\ UNCHANGED hofVars

NextBatched ==
    \/ BatchedToggle
    \/ \E key \in Keys : BatchedKeyDown(key)
    \/ Render

SpecBatched == Init /\ [][NextBatched]_vars

----------------------------------------------------------------------------
(* Properties *)

InRange == selectedIndex >= 0 /\ selectedIndex < Len(items)

\* C1: after any sequence of keys, toggles, item clicks and list
\* replacements the highlighted index is within 0 .. length(items)-1 when
\* items is non-empty and is the sentinel -1 when items is empty.
C1_HighlightInRange ==
    IF items = <<>> THEN selectedIndex = -1 ELSE InRange

\* C2: the completion of a superseded invocation (one started before the
\* latest fetchData call) changes none of data, error and loading, so the
\* data of the latest invocation is what remains.
C2_StaleResultSuppressed ==
    [][(last'.op \in {"resolve", "reject"} /\ last'.inv < issued)
         => UNCHANGED <<data, error, loading>>]_vars

C4_ArrowDownReachesFirstItem ==
    (hist = <<"toggle", "ArrowDown", "Enter">> /\ items # <<>>)
        => selectedItem = ItemAt(items, 0)

\* C5: on a non-empty list with the index in range, ArrowDown yields
\* (i + 1) mod n and ArrowUp yields (i - 1) mod n.
C5_CyclicNavigation ==
    [][(last'.op = "key" /\ InRange)
         => /\ last'.key = "ArrowDown"
                => selectedIndex' = (selectedIndex + 1) % Len(items)
            /\ last'.key = "ArrowUp"
                => selectedIndex' = (selectedIndex - 1) % Len(items)]_vars

\* three ArrowDown presses over three items: 0 -> 1 -> 2 -> 0
C5_Witness ==
    /\ hist = <<"ArrowDown", "ArrowDown", "ArrowDown">>
    /\ Len(items) = 3
    /\ selectedIndex = 0

C7_ToggleInverts ==
    /\ ~isOpen
    /\ [][last'.op = "toggle" => isOpen' = ~isOpen]_vars

C7_Witness ==
    /\ hist = <<"toggle", "toggle">>
    /\ ~isOpen

\* C8: data is present iff the status is success, error is present iff the
\* status is failure, and data and error are never both present.
C8_DataXorError ==
    /\ data # NoData <=> renderContent = "DropdownMenu"
    /\ error # Undefined <=> renderContent = "Error"
    /\ ~(data # NoData /\ error # Undefined)

\* C9: a failed fetch records the error and leaves the item list,
\* selectedItem, selectedIndex and isOpen as they were.
C9_FailureKeepsSelection ==
    [][last'.op = "reject"
         => /\ error' = SomeError
            /\ UNCHANGED <<items, selectedItem, selectedIndex, isOpen>>]_vars

\* a refresh failed while the list fetched before is on display
C9_Witness ==
    /\ last.op = "reject"
    /\ mounted
    /\ error = SomeError
    /\ items = Catalogue
    /\ selectedItem = "Orange"
    /\ isOpen

\* C10: once the owner is unmounted, the completion of an outstanding
\* invocation writes none of data, error and loading.
C10_NoWriteAfterUnmount ==
    [][(~mounted /\ last'.op \in {"resolve", "reject"})
         => UNCHANGED <<data, error, loading>>]_vars

\* C11: the derived attributes report expanded = isOpen, and the
\* active-descendant is items[highlightedIndex] when the list is open and
\* the index is in range, and is absent otherwise.
C11_AttributeDerivation ==
    /\ getAriaAttributes.expanded = isOpen
    /\ getAriaAttributes.activedescendant =
           IF isOpen /\ InRange THEN items[selectedIndex + 1] ELSE Undefined

\* C12: a click on an item of the open list makes it the selectedItem and
\* closes the list.
C12_ClickSelectsAndCloses ==
    [][last'.op = "click"
         => (selectedItem' = last'.item /\ ~isOpen')]_vars

C14_ClosedEnterOnlyOpens ==
    [][(last'.op = "key" /\ last'.key \in {"Enter", " "} /\ ~isOpen)
         => (isOpen' /\ UNCHANGED selectedItem)]_vars

\* C15: when the list is closed, a key other than Enter or Space leaves
\* isOpen, highlightedIndex and selectedItem unchanged.
C15_ClosedOtherKeysIgnored ==
    [][(last'.op = "key" /\ last'.key \notin {"Enter", " "} /\ ~isOpen)
         => UNCHANGED <<isOpen, selectedIndex, selectedItem>>]_vars

\* C16: when the list is open, Escape closes it and releases the focus of
\* the triggering element, without changing selectedItem.
C16_OpenEscapeCloses ==
    [][(last'.op = "key" /\ last'.key = "Escape" /\ isOpen)
         => (~isOpen' /\ last'.blurred /\ UNCHANGED selectedItem)]_vars

\* the keys the mapping handles in each state
Handled(key, open) ==
    IF open
    THEN key \in {"Enter", " ", "ArrowDown", "ArrowUp", "Escape"}
    ELSE key \in {"Enter", " "}

\* C17: preventDefault is called for a key press iff the key is handled in
\* the current state; an unhandled key changes no state.
C17_DefaultSuppression ==
    [][last'.op = "key"
         => /\ last'.prevented <=> Handled(last'.key, isOpen)
            /\ ~Handled(last'.key, isOpen)
                 => UNCHANGED <<isOpen, selectedIndex, selectedItem>>]_vars

\* C18: while the dropdown is open, renderContent shows the loading view
\* exactly when a fetch is outstanding, the error view exactly when the
\* most recent completed fetch failed, and the item menu, holding the
\* fetched items, exactly when the most recent completed fetch succeeded.
C18_CorrectContentWhileOpen ==
    (mounted /\ isOpen) =>
        /\ renderContent = "Loading" <=> pending # {}
        /\ renderContent = "Error" <=> (pending = {} /\ settled = "failure")
        /\ renderContent = "DropdownMenu"
              <=> (pending = {} /\ settled = "success")
        /\ renderContent = "DropdownMenu" => items = ItemsOf(data)

\* C19: loading is true exactly while an invocation is outstanding, so
\* loading = false implies that none is.
C19_LoadingWhileOutstanding ==
    /\ loading <=> pending # {}
    /\ ~loading => pending = {}

\* C20: the auto-closing panel starts open; a timer is armed only when
\* isOpen is true; a timer expiry never turns isOpen from false to true;
\* and, the effect and the timers being run fairly, every state of the
\* mounted panel with isOpen = true is followed by one with isOpen = false.
C20_AutoClose ==
    /\ isOpen = TRUE
    /\ [][timers' \ timers # {} => (isOpen /\ isOpen')]_vars
    /\ [][last'.op = "expire" => (isOpen' => isOpen)]_vars
    /\ (mounted /\ isOpen) ~> (~mounted \/ ~isOpen)

\* the panel was reopened by a click and its second timer closed it again
C20_Witness ==
    /\ last.op = "expire"
    /\ last.inv = 2
    /\ mounted
    /\ ~isOpen
    /\ timers = {}

\* C21: once the component that owns the auto-close timer is unmounted, no
\* timer remains pending, and nothing changes isOpen after the teardown.
C21_TimerCleanupOnTeardown ==
    [][~mounted' => (timers' = {} /\ (~mounted => UNCHANGED isOpen))]_vars

\* the open panel was unmounted while its first timer was armed
C21_Witness ==
    /\ ~mounted
    /\ last.op = "unmount"
    /\ isOpen
    /\ timerSeq = 1
    /\ panel = "AutoCloseExpandablePanel"

\* C22: under withKeyboardToggle, Enter or Space calls the toggle prop
\* once, which inverts the open state when a toggle is supplied and does
\* nothing when none is; Escape blurs the wrapper and leaves the open state
\* alone; every other key leaves the open state and the focus alone.
C22_KeyboardToggleMapping ==
    [][(last'.op = "key" /\ panel \in {"withAutoClose", KeyboardOnly})
         => /\ last'.key \in {"Enter", " "}
                 => isOpen' = (IF panel = KeyboardOnly THEN isOpen ELSE ~isOpen)
            /\ last'.key = "Escape"
                 => (last'.blurred /\ UNCHANGED isOpen)
            /\ last'.key \notin {"Enter", " ", "Escape"}
                 => (~last'.blurred /\ UNCHANGED isOpen)]_vars

\* Enter closed the panel that has a toggle, then Escape blurred it
C22_Witness ==
    /\ panel = "withAutoClose"
    /\ hist = <<"Enter", "Escape">>
    /\ last.blurred
    /\ ~isOpen

\* the composed panel, just opened by Enter or Space
ReopenedFromKeyboard ==
    /\ panel = "withAutoClose"
    /\ mounted
    /\ isOpen
    /\ last.op = "key"
    /\ last.key \in {"Enter", " "}

\* C23: in withAutoClose(withKeyboardToggle(ExpandablePanel)) Enter/Space
\* inverts the very isOpen the timer sets to false, the reopening from the
\* keyboard arms a new timer, and the reopened panel is closed again.
C23_ComposedPanel ==
    /\ [][(panel = "withAutoClose" /\ last'.op = "key"
              /\ last'.key \in {"Enter", " "}) => isOpen' = ~isOpen]_vars
    /\ [][(panel = "withAutoClose" /\ last'.op = "expire") => ~isOpen']_vars
    /\ [][(ReopenedFromKeyboard /\ last'.op = "effect")
            => (timerSeq' = timerSeq + 1 /\ timers' = {timerSeq'})]_vars
    /\ ReopenedFromKeyboard ~> (~mounted \/ ~isOpen)

\* closed by Enter, reopened by Enter, closed by the timer of the reopening
C23_Witness ==
    /\ panel = "withAutoClose"
    /\ hist = <<"Enter", "Enter">>
    /\ last.op = "expire"
    /\ last.inv = 2
    /\ mounted
    /\ ~isOpen

\* C24: for every content function f and argument list,
\* withFooter(withHeader(f))(args) is the header line, then f(args), then
\* the footer line, and f is called once, with the arguments unchanged.
C24_ReportComposition ==
    (last.op = "report" /\ call.wraps = <<"withHeader", "withFooter">>)
        => /\ output = "=== Header ===\n" \o contentFunc(call.fn, call.args)
                                           \o "\n=== Footer ==="
           /\ Len(calls) = 1
           /\ calls[1].fn = call.fn
           /\ calls[1].args = call.args

\* the report of hof.js for its two items
C24_Witness ==
    /\ call = [fn |-> "printAllItems", wraps |-> <<"withHeader", "withFooter">>,
               args |-> << <<[name |-> "Apple", price |-> 100],
                             [name |-> "Banana", price |-> 75]>> >>]
    /\ output = "=== Header ===\nName: Apple - Price: $1\nName: Banana - Price: $0.75\n=== Footer ==="

\* C25: every render of the wrapped component performs the authorization
\* check first and renders the original component iff the check reports
\* the user authorized; otherwise it renders Login and not the original.
C25_AuthorizationGate ==
    last.op = "render"
        => /\ calls[1].fn = "checkAuthorization"
           /\ output = call.fn <=> truthy(calls[1].returned)
           /\ ~truthy(calls[1].returned)
                => /\ output = "Login"
                   /\ \A i \in 1..Len(calls) : calls[i].fn # call.fn

\* the check returned nothing and Login was rendered
C25_Witness ==
    /\ last.op = "render"
    /\ calls[1].returned = Undefined
    /\ output = "Login"

\* C26: when items is empty, ArrowDown and ArrowUp leave highlightedIndex
\* unchanged.
C26_EmptyListNavigation ==
    [][(last'.op = "key" /\ last'.key \in {"ArrowDown", "ArrowUp"}
          /\ items = <<>>) => UNCHANGED selectedIndex]_vars

\* C27: with the list open and no item highlighted, Enter or Space changes
\* neither selectedItem nor isOpen; and selectedItem is never set to
\* something that is not an item of the list.
C27_SelectAtSentinel ==
    /\ [][(last'.op = "key" /\ last'.key \in {"Enter", " "}
            /\ isOpen /\ selectedIndex = InitialIndex_Sentinel)
           => UNCHANGED <<selectedItem, isOpen>>]_vars
    /\ [][selectedItem' # selectedItem => selectedItem' \in Elems(items)]_vars

\* C28: opening the list, by the trigger or by Enter/Space, while no item
\* is highlighted and items is non-empty, highlights item 0.
C28_OpenInitialisesHighlight ==
    [][(last'.op \in {"toggle", "key"} /\ ~isOpen /\ isOpen'
          /\ selectedIndex = InitialIndex_Sentinel /\ items # <<>>)
         => selectedIndex' = 0]_vars

\* C29: a freshly created controller has isOpen = false, no item
\* highlighted (index -1) and no selectedItem.
C29_InitialState ==
    last = NoEvent
        => /\ ~isOpen
           /\ selectedIndex = InitialIndex_Sentinel
           /\ selectedItem = Null

\* C30: after the list is closed by the trigger or a key, highlightedIndex
\* is the index of selectedItem in items if there is a selectedItem, and is
\* what it was before the close if there is none.
C30_HighlightOnClose ==
    [][(last'.op \in {"toggle", "key"} /\ isOpen /\ ~isOpen')
         => IF selectedItem' \notin {Null, Undefined}
            THEN /\ selectedIndex' \in 0..(Len(items) - 1)
                 /\ items[selectedIndex' + 1] = selectedItem'
            ELSE UNCHANGED selectedIndex]_vars

\* C31: when a fetch result replaces the item list, a selectedItem that is
\* not in the new list becomes absent, and one that is in it is kept.
C31_ReplacementClearsSelection ==
    [][(last'.op = "resolve" /\ items' # items)
         => IF selectedItem \in Elems(items')
            THEN selectedItem' = selectedItem
            ELSE selectedItem' \in {Null, Undefined}]_vars

\* C32: when a fetch result replaces the item list after arrow keys were
\* pressed, highlightedIndex is at most Len(newItems) - 1 afterwards (stated
\* here for a non-empty new list), and ArrowDown then moves within the new
\* list.
C32_ReplacementClampsHighlight ==
    /\ [][(last'.op = "resolve" /\ mounted /\ items' # <<>>)
            => selectedIndex' <= Len(items') - 1]_vars
    /\ [][(last'.op = "key" /\ last'.key = "ArrowDown" /\ settled = "success"
            /\ items # <<>>) => selectedIndex' \in 0..(Len(items) - 1)]_vars

\* C33: selecting an item that is not in the current list changes none of
\* selectedItem, highlightedIndex and isOpen.
C33_SelectAbsentItem ==
    [][(last'.op = "select" /\ last'.item \notin Elems(items))
         => UNCHANGED <<selectedItem, selectedIndex, isOpen>>]_vars

\* C34: ArrowDown and ArrowUp leave selectedItem, isOpen and items
\* unchanged; selectedItem changes only through Enter/Space, an item click
\* or a replacement of the item list.
C34_HighlightCommitIndependent ==
    /\ [][(last'.op = "key" /\ last'.key \in {"ArrowDown", "ArrowUp"})
            => UNCHANGED <<selectedItem, isOpen, items>>]_vars
    /\ [][selectedItem' # selectedItem
            => \/ last'.op \in {"click", "setItems"}
               \/ last'.op = "key" /\ last'.key \in {"Enter", " "}]_vars

\* Apple was committed, then the highlight moved on to Orange
C34_Witness ==
    /\ hist = <<"toggle", "Enter", "ArrowDown">>
    /\ items = Catalogue
    /\ selectedItem = "Apple"
    /\ selectedIndex = 1

\* C35: every event acts on the state the events before it produced, a
\* render in between or not: Enter delivered right after ArrowDown on the
\* open list commits the item at the index that ArrowDown produced, and
\* every toggle inverts isOpen as it is, so that two in a row restore it.
C35_EventsActOnLatestState ==
    /\ [][(last.op = "key" /\ last.key = "ArrowDown" /\ isOpen
            /\ last'.op = "key" /\ last'.key = "Enter")
           => selectedItem' = ItemAt(items, selectedIndex)]_vars
    /\ [][last'.op = "toggle" => isOpen' = ~isOpen]_vars

\* C36: while a fetch is outstanding, the toggle, every handled key and
\* the click on every item of the current list are enabled.
C36_ResponsiveWhileFetching ==
    (mounted /\ pending # {})
        => /\ ENABLED ServiceTriggerClick
           /\ selectedIndex \in (1 - MaxIndex)..(MaxIndex - 1)
                => \A key \in {"Enter", " ", "ArrowDown", "ArrowUp"} :
                       ENABLED ServiceKeyDown(key)
           /\ isOpen
                => \A item \in Elems(items) : ENABLED ServiceItemClick(item)

\* C37: selectedItem is always either absent or an element of the current
\* item list.
C37_SelectionMembership ==
    selectedItem = Null \/ selectedItem \in Elems(items)

\* C38: in useAutoClose and withAutoClose, once the effects have run, at
\* most one timer is pending, and one is pending exactly when isOpen is
\* true; a timer that closes an open panel is the one armed at its latest
\* opening, never one armed before the panel was closed and reopened.
C38_SingleLiveTimer ==
    /\ []((mounted /\ ~effectDue)
            => (Cardinality(timers) <= 1 /\ (timers # {} <=> isOpen)))
    /\ [][(last'.op = "expire" /\ isOpen) => last'.inv = timerSeq]_vars

\* closed and reopened by the header: timer 1 is gone and timer 2 pending
C38_Witness ==
    /\ hist = <<"toggle", "toggle">>
    /\ mounted
    /\ ~effectDue
    /\ isOpen
    /\ timers = {2}

\* C39: AutoCloseExpandablePanel, withAutoClose(ExpandablePanel) and the
\* panel built on useAutoClose start open and answer every header click
\* and every timer expiry with the same isOpen: a click inverts it, an
\* expiry makes it false, and whenever the panel is open and its effects
\* have run, exactly the timer of the latest render is pending.
C39_VariantsEquivalent ==
    /\ []((panel \in AllPanelKinds /\ last = NoEvent) => isOpen)
    /\ [][(panel \in AllPanelKinds /\ last'.op = "toggle")
            => isOpen' = ~isOpen]_vars
    /\ [][(panel \in AllPanelKinds /\ last'.op = "expire") => ~isOpen']_vars
    /\ []((panel \in AllPanelKinds /\ mounted /\ ~effectDue /\ isOpen)
            => timers = {timerSeq})

\* AutoCloseExpandablePanel was closed by a click and its timer fired then
C39_Witness ==
    /\ panel = "AutoCloseExpandablePanel"
    /\ hist = <<"toggle">>
    /\ last.op = "expire"
    /\ last.inv = 2
    /\ ~isOpen

====
